---- MODULE Spec2Model ----
(***************************************************************************)
(* D4RLExperienceReplay (torchrl/data/datasets/d4rl.py): the ingestion     *)
(* pipeline run by __init__.  A raw columnar table is obtained from one of *)
(* three sources, normalised, given a "next" sub-record, shifted, its      *)
(* terminal next-observations are zeroed, it is optionally split into      *)
(* trajectories, and it is written to the replay storage.                  *)
(*                                                                         *)
(* Tensors are modelled with their storage: `heap` is the sequence of      *)
(* allocated buffers and a tensordict entry is a reference (buffer,        *)
(* offset, length, dtype) into it, so that views (slices, renamed keys,    *)
(* select/update) alias their source and clone()/to() allocate.  The       *)
(* trailing singleton dimension added by unsqueeze(-1) is a view of the    *)
(* same storage and is not represented.                                    *)
(***************************************************************************)
EXTENDS Integers, Sequences, FiniteSets, TLC

\* Largest number of rows of a raw table.
MaxRows == 3

VARIABLES
    opts,       \* the arguments of __init__
    pc,         \* position of __init__ in the pipeline
    err,        \* the exception that ended construction ("none" if none)
    path,       \* the _get_dataset_* method __init__ called
    calls,      \* calls made to external collaborators so far
    raw,        \* the values of the raw table as the source supplied them
    heap,       \* tensor storage: a sequence of buffers
    dataset,    \* the tensordict `dataset`: its batch shape and its entries
    metadata,   \* the attribute self.metadata
    specs,      \* the attribute self.specs
    storage     \* the LazyMemmapStorage of the replay buffer

vars == <<opts, pc, err, path, calls, raw, heap, dataset, metadata, specs, storage>>

----------------------------------------------------------------------------
(* Tensor storage and tensordict primitives                                *)

Ref(b, o, l, dt) == [buf |-> b, off |-> o, len |-> l, dtype |-> dt]

\* The values a reference denotes.
Read(h, r) == [t \in 1..r.len |-> h[r.buf][r.off + t]]

\* In-place write of value v at the 1-based positions `at` of a reference.
WriteAt(h, r, at, v) ==
    [h EXCEPT ![r.buf] = [i \in 1..Len(@) |->
        IF i - r.off \in at THEN v ELSE @[i]]]

EmptyTD == [shape |-> <<0>>, col |-> <<>>]

keys(ds) == DOMAIN ds.col

\* tensordict.get(key) / tensordict[key]: the values of an entry.
get(s, k) == Read(s.h, s.ds.col[k])

\* Bind key k of ds to reference r.
Bind(ds, k, r) ==
    [ds EXCEPT !.col = [x \in keys(ds) \cup {k} |-> IF x = k THEN r ELSE ds.col[x]]]

\* tensordict.set(key, tensor) with a freshly computed tensor.
set(s, k, v, dt) ==
    [h |-> Append(s.h, v), ds |-> Bind(s.ds, k, Ref(Len(s.h) + 1, 0, Len(v), dt))]

\* tensordict.exclude(key)
exclude(ds, k) == [ds EXCEPT !.col = [x \in keys(ds) \ {k} |-> ds.col[x]]]

\* tensordict.select(*keys, strict=False): the entries among ks, same tensors.
select(ds, ks) == [ds EXCEPT !.col = [x \in keys(ds) \cap ks |-> ds.col[x]]]

\* A rename that passes over a missing key in silence.
rename_key_lenient(ds, old) == FALSE

\* rename_key_ raises KeyError when the old key is missing.
rename_key_raises(ds, old) == old \notin keys(ds)

\* rename_key_(old, new): the entry keeps its tensor.
rename_key_(ds, old, new) ==
    IF old \in keys(ds)
    THEN [ds EXCEPT !.col = [x \in (keys(ds) \ {old}) \cup {new} |->
                                IF x = new THEN ds.col[old] ELSE ds.col[x]]]
    ELSE ds

\* tensor.to(dtype): a new tensor of that dtype holding the same numbers.
to(s, k, dt) == set(s, k, get(s, k), dt)

----------------------------------------------------------------------------
(* The raw tables a source can supply                                      *)

RawKeyOrder ==
    <<"observations", "actions", "rewards", "terminals", "timeouts",
      "infos", "next_observations", "metadata">>

\* Fields the flat (derived-mode) sources carry, and the pre-built source.
FlatMandatory == {"observations", "actions", "rewards", "terminals"}
PrebuiltMandatory == FlatMandatory \cup {"next_observations"}

\* Payload columns carry one distinct non-zero number per row: the code moves
\* payload values and never branches on them.
RawColumn(k, n, term, tout) ==
    CASE k = "terminals" -> term
      [] k = "timeouts" -> tout
      [] k = "next_observations" -> [t \in 1..n |-> n + t]
      [] k = "metadata" -> [t \in 1..n |-> 0 - t]
      [] OTHER -> [t \in 1..n |-> t]

RawTable(n, ks, term, tout) ==
    [n |-> n, col |-> [k \in ks |-> RawColumn(k, n, term, tout)]]

\* Every table of n rows: the termination flags are arbitrary, timeouts /
\* infos / metadata are optional, and at most one mandatory field is missing.
RawTablesOfSize(mandatory, n) ==
    { RawTable(n, (mandatory \ miss) \cup opt, term, tout) :
        term \in [1..n -> BOOLEAN], tout \in [1..n -> BOOLEAN],
        miss \in {{}} \cup {{m} : m \in mandatory},
        opt \in SUBSET {"timeouts", "infos", "metadata"} }

\* The flat sequence of the worked scenario: terminated = [F,F,T,F], no timeouts.
ScenarioTerminated == <<FALSE, FALSE, TRUE, FALSE>>

ScenarioTables(mandatory) ==
    { RawTable(Len(ScenarioTerminated), mandatory \cup opt,
               ScenarioTerminated, ScenarioTerminated) :
        opt \in SUBSET {"infos", "metadata"} }

RawTables(mandatory) ==
    UNION { RawTablesOfSize(mandatory, n) : n \in 0..MaxRows }
        \cup ScenarioTables(mandatory)

\* The in-memory tensordict built from a raw table: one buffer per field.
Position(k) == CHOOSE i \in 1..Len(RawKeyOrder) : RawKeyOrder[i] = k

make_tensordict(r) ==
    [h |-> [i \in 1..Len(RawKeyOrder) |->
                IF RawKeyOrder[i] \in DOMAIN r.col THEN r.col[RawKeyOrder[i]] ELSE <<>>],
     ds |-> [shape |-> <<r.n>>,
             col |-> [k \in DOMAIN r.col |->
                        Ref(Position(k), 0, Len(r.col[k]), "raw")]]]

----------------------------------------------------------------------------
(* __init__: arguments and source selection                                *)

\* Two of the keys of D4RL_DATASETS, and a name that is not a key.
D4RL_DATASETS == {"maze2d-umaze-v1", "kitchen-partial-v0"}
Names == {"maze2d-umaze-v1", "not-a-dataset-v0"}

Options ==
    [name : Names, direct_download : BOOLEAN, from_env : BOOLEAN,
     use_truncated_as_done : BOOLEAN, split_trajs : BOOLEAN,
     env_kwargs : {{}, {"terminate_on_end"}}]

NoStorage == [allocated |-> FALSE, max_size |-> 0, len |-> 0]
NoRaw == [n |-> 0, col |-> <<>>]

Init ==
    /\ opts \in Options
    /\ pc = "init"
    /\ err = "none"
    /\ path = "none"
    /\ calls = {}
    /\ raw = NoRaw
    /\ heap = <<>>
    /\ dataset = EmptyTD
    /\ metadata = [set |-> FALSE, block |-> <<>>]
    /\ specs = "unset"
    /\ storage = NoStorage

\* The exception leaves __init__ after the storage was allocated and extended
\* with whatever table there is.
RaiseAfterExtend(e, p, c) ==
    /\ pc' = "error"
    /\ err' = e
    /\ path' = p
    /\ calls' = c
    /\ storage' = [allocated |-> TRUE, max_size |-> dataset.shape[1],
                   len |-> dataset.shape[1]]
    /\ UNCHANGED <<opts, raw, heap, dataset, metadata, specs>>

\* An exception leaves __init__: construction ends, nothing else happens.
Raise(e, p, c) ==
    /\ pc' = "error"
    /\ err' = e
    /\ path' = p
    /\ calls' = c
    /\ UNCHANGED <<opts, raw, heap, dataset, metadata, specs, storage>>

\* A source returned raw table r: the tensordict is built from it.
Loaded(r, p, c) ==
    /\ pc' = "raw"
    /\ path' = p
    /\ calls' = c
    /\ raw' = r
    /\ heap' = make_tensordict(r).h
    /\ dataset' = make_tensordict(r).ds
    /\ UNCHANGED <<opts, err, metadata, specs, storage>>

\* The archive table is consulted before env_kwargs is looked at.
get_dataset_direct_download_lookup_first ==
    /\ pc = "init"
    /\ opts.direct_download
    /\ IF opts.name \notin D4RL_DATASETS
       THEN Raise("KeyError", "direct_download", calls)
       ELSE IF opts.env_kwargs # {}
       THEN Raise("RuntimeError", "direct_download", calls)
       ELSE \/ Raise("IOError", "direct_download", calls \cup {"download"})
            \/ \E r \in RawTables(FlatMandatory) :
                  Loaded(r, "direct_download", calls \cup {"download", "from_h5"})

\* The result of the archive lookup is handed to the download unchecked.
get_dataset_direct_download_unchecked_url ==
    /\ pc = "init"
    /\ opts.direct_download
    /\ IF opts.env_kwargs # {}
       THEN Raise("RuntimeError", "direct_download", calls)
       ELSE \/ Raise("IOError", "direct_download", calls \cup {"download"})
            \/ \E r \in RawTables(FlatMandatory) :
                  Loaded(r, "direct_download", calls \cup {"download", "from_h5"})

\* __init__ with direct_download: _get_dataset_direct_download up to to_tensordict().
get_dataset_direct_download ==
    /\ pc = "init"
    /\ opts.direct_download
    /\ IF opts.env_kwargs # {}
       THEN Raise("RuntimeError", "direct_download", calls)
       ELSE IF opts.name \notin D4RL_DATASETS
       THEN Raise("KeyError", "direct_download", calls)
       ELSE \/ Raise("IOError", "direct_download", calls \cup {"download"})
            \/ \E r \in RawTables(FlatMandatory) :
                  Loaded(r, "direct_download", calls \cup {"download", "from_h5"})

\* __init__ without direct_download: d4rl cannot be imported.
import_d4rl_fails ==
    /\ pc = "init"
    /\ ~opts.direct_download
    /\ Raise("ImportError", "none", calls \cup {"import_d4rl"})

\* from_env is honoured whatever direct_download says.
get_dataset_from_env_first ==
    /\ pc = "init"
    /\ opts.from_env
    /\ LET c == calls \cup {"import_d4rl"} IN
       IF opts.env_kwargs # {}
       THEN Raise("RuntimeError", "from_env", c)
       ELSE IF opts.name \notin D4RL_DATASETS
       THEN Raise("gym.error", "from_env", c \cup {"gym.make"})
       ELSE \E r \in RawTables(FlatMandatory) :
               Loaded(r, "from_env", c \cup {"gym.make", "env.get_dataset"})

\* __init__ without direct_download, from_env: _get_dataset_from_env up to unflatten_keys.
get_dataset_from_env ==
    /\ pc = "init"
    /\ ~opts.direct_download
    /\ opts.from_env
    /\ LET c == calls \cup {"import_d4rl"} IN
       IF opts.env_kwargs # {}
       THEN Raise("RuntimeError", "from_env", c)
       ELSE IF opts.name \notin D4RL_DATASETS
       THEN Raise("gym.error", "from_env", c \cup {"gym.make"})
       ELSE \E r \in RawTables(FlatMandatory) :
               Loaded(r, "from_env", c \cup {"gym.make", "env.get_dataset"})

\* __init__ without direct_download, not from_env: _get_dataset_direct up to unflatten_keys.
get_dataset_direct ==
    /\ pc = "init"
    /\ ~opts.direct_download
    /\ ~opts.from_env
    /\ LET c == calls \cup {"import_d4rl"} IN
       IF opts.name \notin D4RL_DATASETS
       THEN Raise("gym.error", "direct", c \cup {"gym.make"})
       ELSE \E r \in RawTables(PrebuiltMandatory) :
               Loaded(r, "direct", c \cup {"gym.make", "qlearning_dataset"})

\* The environment handed to the processing: only the d4rl paths have one.
HasEnv == path \in {"from_env", "direct"}

----------------------------------------------------------------------------
(* Normalisation: metadata, renames, done, dtypes                          *)

Or(a, b) == [t \in 1..Len(a) |-> a[t] \/ b[t]]

\* The metadata block is taken out of the table and kept on the side.
ExtractMetadata(s) ==
    IF "metadata" \in keys(s.ds)
    THEN [set |-> TRUE, block |-> get(s, "metadata")]
    ELSE [set |-> TRUE, block |-> <<>>]

\* The block is read but left in the table.
ExcludeMetadataKept(ds) == ds

ExcludeMetadata(ds) ==
    IF "metadata" \in keys(ds) THEN exclude(ds, "metadata") ELSE ds

RenameTimeouts(ds) ==
    IF "timeouts" \in keys(ds) THEN rename_key_(ds, "timeouts", "truncated") ELSE ds

\* done taken from terminated alone, whatever the policy.
SetDoneTerminatedOnly(s, use_truncated_as_done) ==
    [h |-> s.h, ds |-> Bind(s.ds, "done", s.ds.col["terminated"])]

\* done = terminated | truncated (False when there is no truncated entry), a
\* new tensor; otherwise done is the terminated tensor itself.
SetDone(s, use_truncated_as_done) ==
    IF use_truncated_as_done
    THEN set(s, "done",
             IF "truncated" \in keys(s.ds)
             THEN Or(get(s, "terminated"), get(s, "truncated"))
             ELSE get(s, "terminated"),
             "bool")
    ELSE [h |-> s.h, ds |-> Bind(s.ds, "done", s.ds.col["terminated"])]

\* try: rename_key_("infos", "info") except KeyError: pass
RenameInfos(ds) == rename_key_(ds, "infos", "info")

\* _process_data_from_env, lines 455-478, on tensordict s0 = (heap, dataset).
FlatRenamed(s0, use_truncated_as_done) ==
    LET d1 == rename_key_(ExcludeMetadata(s0.ds), "observations", "observation")
        d2 == RenameTimeouts(rename_key_(d1, "terminals", "terminated"))
        s3 == SetDone([h |-> s0.h, ds |-> d2], use_truncated_as_done)
        d4 == rename_key_(rename_key_(s3.ds, "rewards", "reward"), "actions", "action")
    IN  [h |-> s3.h, ds |-> RenameInfos(d4)]

\* The KeyError raised by lines 455-478 (evaluated in the order of the code).
FlatRenameRaises(s0) ==
    LET d0 == ExcludeMetadata(s0.ds)
        d1 == rename_key_(d0, "observations", "observation")
        d2 == RenameTimeouts(rename_key_(d1, "terminals", "terminated"))
    IN  \/ rename_key_raises(d0, "observations")
        \/ rename_key_raises(d1, "terminals")
        \/ "terminated" \notin keys(d2)
        \/ rename_key_raises(d2, "rewards")
        \/ rename_key_raises(d2, "actions")

\* dataset[key] = dataset[key].to(spec.dtype) for the keys ks, in order.
Coerce(s, ks) ==
    IF ks = <<>> THEN s
    ELSE LET RECURSIVE Go(_, _)
             Go(acc, i) == IF i > Len(ks) THEN acc ELSE Go(to(acc, ks[i], "spec"), i + 1)
         IN  Go(s, 1)

\* _process_data_from_env, lines 484-497: dtypes (with an environment) and
\* the formatting of done / terminated / truncated / reward.
FlatFormatted(s, env) ==
    IF env THEN Coerce(s, <<"observation", "action", "reward">>) ELSE s

FlatFormatRaises(s, env) ==
    \/ env /\ {"observation", "action", "reward"} \ keys(s.ds) # {}
    \/ {"done", "terminated", "reward"} \ keys(s.ds) # {}

\* _get_dataset_direct, lines 382-403.
PrebuiltRenamed(s0, use_truncated_as_done) ==
    LET d1 == rename_key_(ExcludeMetadata(s0.ds), "observations", "observation")
        d2 == rename_key_(d1, "next_observations", "next/observation")
        d3 == RenameTimeouts(rename_key_(d2, "terminals", "terminated"))
        s4 == SetDone([h |-> s0.h, ds |-> d3], use_truncated_as_done)
    IN  [h |-> s4.h,
         ds |-> rename_key_(rename_key_(s4.ds, "rewards", "reward"), "actions", "action")]

PrebuiltRenameRaises(s0) ==
    LET d0 == ExcludeMetadata(s0.ds)
        d1 == rename_key_(d0, "observations", "observation")
        d2 == rename_key_(d1, "next_observations", "next/observation")
        d3 == RenameTimeouts(rename_key_(d2, "terminals", "terminated"))
    IN  \/ rename_key_raises(d0, "observations")
        \/ rename_key_raises(d1, "next_observations")
        \/ rename_key_raises(d2, "terminals")
        \/ "terminated" \notin keys(d3)
        \/ rename_key_raises(d3, "rewards")
        \/ rename_key_raises(d3, "actions")

\* _get_dataset_direct, lines 405-418.
PrebuiltFormatted(s) ==
    Coerce(s, <<"observation", "next/observation", "action", "reward">>)

PrebuiltFormatRaises(s) ==
    {"observation", "next/observation", "action", "reward", "done", "terminated"}
        \ keys(s.ds) # {}

\* A KeyError inside the processing: self.metadata has been assigned by then.
RaiseKeyError ==
    /\ pc' = "error"
    /\ err' = "KeyError"
    /\ metadata' = ExtractMetadata([h |-> heap, ds |-> dataset])
    /\ UNCHANGED <<opts, path, calls, raw, heap, dataset, specs, storage>>

Normalized(s) ==
    /\ pc' = "normalized"
    /\ heap' = s.h
    /\ dataset' = s.ds
    /\ metadata' = ExtractMetadata([h |-> heap, ds |-> dataset])
    /\ UNCHANGED <<opts, err, path, calls, raw, specs, storage>>

\* _process_data_from_env up to line 497 (direct download and from_env).
process_data_from_env ==
    /\ pc = "raw"
    /\ path \in {"direct_download", "from_env"}
    /\ LET s0 == [h |-> heap, ds |-> dataset]
           s1 == FlatRenamed(s0, opts.use_truncated_as_done)
       IN  IF FlatRenameRaises(s0) \/ FlatFormatRaises(s1, HasEnv)
           THEN RaiseKeyError
           ELSE Normalized(FlatFormatted(s1, HasEnv))

\* _get_dataset_direct up to line 418 (d4rl.qlearning_dataset).
get_dataset_direct_normalize ==
    /\ pc = "raw"
    /\ path = "direct"
    /\ LET s0 == [h |-> heap, ds |-> dataset]
           s1 == PrebuiltRenamed(s0, opts.use_truncated_as_done)
       IN  IF PrebuiltRenameRaises(s0) \/ PrebuiltFormatRaises(s1)
           THEN RaiseKeyError
           ELSE Normalized(PrebuiltFormatted(s1))

----------------------------------------------------------------------------
(* Next-state construction, clone, shift                                   *)

\* The entries a finished table can hold, in a fixed order (for allocation).
TableKeyOrder ==
    <<"observation", "action", "reward", "terminated", "truncated", "done",
      "info", "infos", "next/observation", "next/info", "next/reward",
      "next/done", "next/terminated", "next/truncated", "mask", "metadata">>

KeyIndex(k) == CHOOSE i \in 1..Len(TableKeyOrder) : TableKeyOrder[i] = k

\* The key of an entry once placed under "next".
Nested(k) ==
    CASE k = "observation" -> "next/observation"
      [] k = "info" -> "next/info"
      [] k = "reward" -> "next/reward"
      [] k = "done" -> "next/done"
      [] k = "terminated" -> "next/terminated"
      [] k = "truncated" -> "next/truncated"

Rows(ds) == ds.shape[1]

\* No row is dropped.
DropLastNone(ds) == ds

\* dataset[:-1]: views of all rows but the last.
DropLast(ds) ==
    LET n == IF Rows(ds) = 0 THEN 0 ELSE Rows(ds) - 1
    IN  [shape |-> <<n>>,
         col |-> [k \in keys(ds) |-> [ds.col[k] EXCEPT !.len = n]]]

\* The same rows as dataset[:-1] instead of the rows after them.
DropFirstNone(ds) ==
    LET d == IF Rows(ds) = 0 THEN 0 ELSE 1
    IN  [shape |-> <<Rows(ds) - d>>,
         col |-> [k \in keys(ds) |-> [ds.col[k] EXCEPT !.len = Rows(ds) - d]]]

\* dataset[1:]: views of all rows but the first.
DropFirst(ds) ==
    LET d == IF Rows(ds) = 0 THEN 0 ELSE 1
    IN  [shape |-> <<Rows(ds) - d>>,
         col |-> [k \in keys(ds) |->
                    [ds.col[k] EXCEPT !.off = @ + d, !.len = Rows(ds) - d]]]

\* top.set("next", sub) followed by top["next"].update(upd): the entries of
\* sub and upd appear under "next", bound to the same tensors.
SetNext(top, sub, upd) ==
    LET under == { Nested(k) : k \in keys(sub) \cup keys(upd) }
        src(nk) == CHOOSE k \in keys(sub) \cup keys(upd) : Nested(k) = nk
    IN  [top EXCEPT !.col =
            [x \in keys(top) \cup under |->
                IF x \in under
                THEN (IF src(x) \in keys(upd) THEN upd.col[src(x)] ELSE sub.col[src(x)])
                ELSE top.col[x]]]

Signals == {"reward", "done", "terminated", "truncated"}

\* Every entry of next, the signals included, is taken from the following row.
FlatWithNextSuccessor(ds) ==
    SetNext(DropLast(ds), DropFirst(select(ds, {"observation", "info"} \cup Signals)),
            select(ds, {}))

\* Lines 498-504: the last row is dropped, next holds rows 1.. of
\* observation / info and the reward / done / terminated / truncated tensors.
FlatWithNext(ds) ==
    LET top == DropLast(ds)
    IN  SetNext(top, DropFirst(select(ds, {"observation", "info"})), select(top, Signals))

\* Lines 419-421: next (already holding next/observation) is updated with
\* the reward / done / terminated / truncated tensors.
PrebuiltWithNext(ds) == SetNext(ds, select(ds, {}), select(ds, Signals))

\* tensordict.clone(): every entry gets storage of its own.
clone(s) ==
    [h |-> s.h \o [i \in 1..Len(TableKeyOrder) |->
                     IF TableKeyOrder[i] \in keys(s.ds)
                     THEN get(s, TableKeyOrder[i]) ELSE <<>>],
     ds |-> [s.ds EXCEPT !.col =
                [k \in keys(s.ds) |->
                    Ref(Len(s.h) + KeyIndex(k), 0, s.ds.col[k].len, s.ds.col[k].dtype)]]]

\* Lines 498-507 / 419-424.
build_next ==
    /\ pc = "normalized"
    /\ LET s == clone([h |-> heap,
                       ds |-> IF path = "direct" THEN PrebuiltWithNext(dataset)
                                                 ELSE FlatWithNext(dataset)])
       IN  /\ heap' = s.h
           /\ dataset' = s.ds
    /\ pc' = "built"
    /\ UNCHANGED <<opts, err, path, calls, raw, metadata, specs, storage>>

\* The identity value written at row 0: 0, which is False for the flags.
Zero(k) == IF k \in {"reward"} THEN 0 ELSE FALSE

\* x[1:] = x[:-1].clone(): every row but the first takes the value of the
\* row before it, read from the copy.
ShiftedDownAliased(v) == [t \in 1..Len(v) |-> v[1]]
ShiftedDown(v) == [t \in 1..Len(v) |-> IF t = 1 THEN v[1] ELSE v[t - 1]]

\* Clone and reset row 0, the rows are not moved.
ShiftKeyResetOnly(s, k) ==
    set(s, k, [get(s, k) EXCEPT ![1] = Zero(k)], s.ds.col[k].dtype)

\* Lines 516-518 / 522-524 for one key: clone, shift, reset row 0.
ShiftKey(s, k) ==
    set(s, k, [ShiftedDown(get(s, k)) EXCEPT ![1] = Zero(k)], s.ds.col[k].dtype)

ShiftKeys(s, ks) ==
    LET RECURSIVE Go(_, _)
        Go(acc, i) ==
            IF i > Len(ks) THEN acc
            ELSE Go(IF ks[i] \in keys(acc.ds) THEN ShiftKey(acc, ks[i]) ELSE acc, i + 1)
    IN  Go(s, 1)

\* The copy of done under next is shifted along with the top-level fields.
shifted_with_next(s) ==
    ShiftKeys(s, <<"reward", "done", "terminated", "truncated", "next/done">>)

\* _shift_reward_done on a table with at least one row.
shifted(s) == ShiftKeys(s, <<"reward", "done", "terminated", "truncated">>)

\* The source method returns the table without having shifted it.
shift_reward_done_skipped ==
    /\ pc = "built"
    /\ pc' = "shifted"
    /\ specs' = IF HasEnv THEN "env.specs" ELSE "None"
    /\ UNCHANGED <<opts, err, path, calls, raw, heap, dataset, metadata, storage>>

\* _shift_reward_done and the return of the _get_dataset_* method.
\* dataset["reward"][0] = 0 raises IndexError on a table without rows.
shift_reward_done ==
    /\ pc = "built"
    /\ IF Rows(dataset) = 0
       THEN Raise("IndexError", path, calls)
       ELSE /\ pc' = "shifted"
            /\ heap' = shifted([h |-> heap, ds |-> dataset]).h
            /\ dataset' = shifted([h |-> heap, ds |-> dataset]).ds
            /\ specs' = IF HasEnv THEN "env.specs" ELSE "None"
            /\ UNCHANGED <<opts, err, path, calls, raw, metadata, storage>>

----------------------------------------------------------------------------
(* __init__ after the source method returned                               *)

\* The mask taken from the top-level (shifted) done.
ZeroMaskTopLevel(s) == { t \in 1..Rows(s.ds) : get(s, "done")[t] }

\* The rows selected by the boolean mask dataset["next", "done"].squeeze().
ZeroMask(s) == { t \in 1..Rows(s.ds) : get(s, "next/done")[t] }

\* Line 327: dataset["next", "observation"][dataset["next", "done"].squeeze()] = 0
zero_terminal ==
    /\ pc = "shifted"
    /\ IF {"next/observation", "next/done"} \ keys(dataset) # {}
       THEN Raise("KeyError", path, calls)
       ELSE /\ pc' = "zeroed"
            /\ heap' = WriteAt(heap, dataset.col["next/observation"],
                               ZeroMask([h |-> heap, ds |-> dataset]), 0)
            /\ UNCHANGED <<opts, err, path, calls, raw, dataset, metadata, specs, storage>>

\* split_trajectories: a true next.done marks the last row of an episode and
\* the rows after the last true one form the final episode.
EpisodeEnds(done) == { t \in 1..Len(done) : done[t] \/ t = Len(done) }

EndOf(ends, e) == CHOOSE t \in ends : Cardinality({u \in ends : u <= t}) = e

StartOf(ends, e) == IF e = 1 THEN 1 ELSE EndOf(ends, e - 1) + 1

Max(S) == IF S = {} THEN 0 ELSE CHOOSE m \in S : \A x \in S : x <= m

PadValue(k) ==
    IF k \in {"terminated", "truncated", "done", "next/done", "next/terminated",
              "next/truncated", "mask"}
    THEN FALSE ELSE 0

\* The padded [episodes, steps] tensor of one column, stored row-major.
Padded(v, ends, E, T, k) ==
    [i \in 1..(E * T) |->
        LET e == ((i - 1) \div T) + 1
            t == ((i - 1) % T) + 1
        IN  IF t <= EndOf(ends, e) - StartOf(ends, e) + 1
            THEN (IF k = "mask" THEN TRUE ELSE v[StartOf(ends, e) + t - 1])
            ELSE PadValue(k)]

split_trajectories(s) ==
    LET ends == EpisodeEnds(get(s, "next/done"))
        E == Cardinality(ends)
        T == Max({ EndOf(ends, e) - StartOf(ends, e) + 1 : e \in 1..E })
        ks == keys(s.ds) \cup {"mask"}
    IN  [h |-> s.h \o [i \in 1..Len(TableKeyOrder) |->
                         IF TableKeyOrder[i] \in ks
                         THEN Padded(IF TableKeyOrder[i] = "mask" THEN <<>>
                                     ELSE get(s, TableKeyOrder[i]),
                                     ends, E, T, TableKeyOrder[i])
                         ELSE <<>>],
         ds |-> [shape |-> <<E, T>>,
                 col |-> [k \in ks |->
                            Ref(Len(s.h) + KeyIndex(k), 0, E * T,
                                IF k = "mask" THEN "bool" ELSE s.ds.col[k].dtype)]]]

\* The flag is written at the first time index instead of the last.
FirstColumn(ds) == { (e - 1) * ds.shape[2] + 1 : e \in 1..ds.shape[1] }

\* The positions [:, -1] of an [E, T] tensor.
LastColumn(ds) == { e * ds.shape[2] : e \in 1..ds.shape[1] }

\* Lines 329-331.
split ==
    /\ pc = "zeroed"
    /\ opts.split_trajs
    /\ LET s == split_trajectories([h |-> heap, ds |-> dataset])
       IN  /\ dataset' = s.ds
           /\ heap' = WriteAt(s.h, s.ds.col["next/done"], LastColumn(s.ds), TRUE)
    /\ pc' = "split"
    /\ UNCHANGED <<opts, err, path, calls, raw, metadata, specs, storage>>

\* The pipeline has produced the table that goes to the replay buffer.
Ready == \/ pc = "zeroed" /\ ~opts.split_trajs
         \/ pc = "split"

\* Lines 333-344: LazyMemmapStorage(dataset.shape[0]) and self.extend(dataset).
extend ==
    /\ Ready
    /\ storage' = [allocated |-> TRUE, max_size |-> dataset.shape[1],
                   len |-> dataset.shape[1]]
    /\ pc' = "done"
    /\ UNCHANGED <<opts, err, path, calls, raw, heap, dataset, metadata, specs>>

Next ==
    \/ get_dataset_direct_download
    \/ import_d4rl_fails
    \/ get_dataset_from_env
    \/ get_dataset_direct
    \/ process_data_from_env
    \/ get_dataset_direct_normalize
    \/ build_next
    \/ shift_reward_done
    \/ zero_terminal
    \/ split
    \/ extend

Spec == Init /\ [][Next]_vars

TypeOK ==
    /\ pc \in {"init", "raw", "normalized", "built", "shifted", "zeroed", "split",
               "done", "error"}
    /\ (pc = "error") = (err # "none")

----------------------------------------------------------------------------
(* Properties                                                              *)

\* The values of entry k of the current table.
Val(k) == Read(heap, dataset.col[k])

Derived == path \in {"direct_download", "from_env"}
Prebuilt == path = "direct"

\* The finished table of a load without trajectory splitting.
FinishedFlat == pc = "done" /\ ~opts.split_trajs

RowIds == 1..Rows(dataset)

\* C1. Terminal invalidation: in the finished table (no splitting, derived or
\* pre-built mode) every row whose next.done is true has an all-zero
\* next.observation, whatever the raw source supplied for that row.
C1_TerminalInvalidation ==
    FinishedFlat =>
        \A t \in RowIds : Val("next/done")[t] => Val("next/observation")[t] = 0

\* The pre-built scenario: next.done = [F,T,F], row 1 is zeroed although the
\* raw next_observations value of that row was not zero.
C1_Witness ==
    /\ FinishedFlat /\ Prebuilt
    /\ Val("next/done") = <<FALSE, TRUE, FALSE>>
    /\ raw.col["next_observations"][2] # 0
    /\ Val("next/observation")[2] = 0

\* C2. Next-observation consistency: in the finished table (no splitting),
\* every row t whose next.done is false has next.observation equal to the raw
\* observation of row t+1 (derived mode) or to the raw next_observations value
\* of row t (pre-built mode).
C2_NextObservationConsistency ==
    FinishedFlat =>
        \A t \in RowIds :
            ~Val("next/done")[t] =>
                Val("next/observation")[t] =
                    IF Derived THEN raw.col["observations"][t + 1]
                    ELSE raw.col["next_observations"][t]

C2_Witness ==
    /\ FinishedFlat /\ Derived
    /\ Rows(dataset) = 2
    /\ Val("next/done") = <<FALSE, FALSE>>
    /\ Val("next/observation") = <<2, 3>>

\* The raw done signal of row t: terminals, or-ed with timeouts when
\* truncation counts as done and the field exists.
RawDone(t) ==
    IF opts.use_truncated_as_done /\ "timeouts" \in DOMAIN raw.col
    THEN raw.col["terminals"][t] \/ raw.col["timeouts"][t]
    ELSE raw.col["terminals"][t]

\* C3 as stated: in the finished table next.reward, next.done, next.terminated
\* and next.truncated equal the top-level fields after the shift, row by row.
C3_NextEqualsShifted ==
    FinishedFlat =>
        \A t \in RowIds :
            \A k \in Signals \cap keys(dataset) : Val(Nested(k))[t] = Val(k)[t]

\* C3 amended. In the finished table next.reward, next.done, next.terminated
\* and next.truncated hold the values of row t from before the shift, that is
\* the raw reward / done / terminals / timeouts of row t.
C3_NextHoldsUnshifted ==
    FinishedFlat =>
        \A t \in RowIds :
            /\ Val("next/reward")[t] = raw.col["rewards"][t]
            /\ Val("next/terminated")[t] = raw.col["terminals"][t]
            /\ Val("next/done")[t] = RawDone(t)
            /\ "timeouts" \in DOMAIN raw.col =>
                   Val("next/truncated")[t] = raw.col["timeouts"][t]

C3_Witness ==
    /\ FinishedFlat
    /\ Rows(dataset) = 2
    /\ Val("next/reward") = <<1, 2>>
    /\ Val("reward") = <<0, 1>>
    /\ Val("next/terminated") = <<TRUE, FALSE>>
    /\ Val("terminated") = <<FALSE, TRUE>>

\* C4. Shift correctness: _shift_reward_done leaves in every row t >= 1 of
\* reward, done, terminated and (if present) truncated the value row t-1 had
\* before the shift, and in row 0 the identity value (0 / false).
C4_ShiftCorrectness ==
    [][ (pc = "built" /\ pc' = "shifted") =>
            \A k \in Signals \cap keys(dataset) :
                \A t \in RowIds :
                    Val(k)'[t] = IF t = 1 THEN Zero(k) ELSE Val(k)[t - 1] ]_vars

C4_Witness ==
    /\ pc = "shifted"
    /\ Rows(dataset) = 3
    /\ "truncated" \in keys(dataset)
    /\ Val("reward") = <<0, 1, 2>>
    /\ Val("truncated") = <<FALSE, FALSE, TRUE>>

\* C5. Row accounting: the tensordict has the raw row count until the next
\* sub-record is built; from then on a derived-mode table has N_in - 1 rows
\* and a pre-built table N_in rows, in every entry, and the storage is sized
\* to that count.  Shift and zeroing do not change it.
C5_RowAccounting ==
    /\ pc \in {"raw", "normalized"} => Rows(dataset) = raw.n
    /\ (pc \in {"shifted", "zeroed"} \/ FinishedFlat) =>
          /\ Rows(dataset) = IF Derived THEN raw.n - 1 ELSE raw.n
          /\ \A k \in keys(dataset) : dataset.col[k].len = Rows(dataset)
          /\ Derived => \A t \in RowIds : Val("action")[t] = raw.col["actions"][t]
    /\ FinishedFlat => storage.max_size = Rows(dataset)

C5_Witness ==
    /\ FinishedFlat /\ Derived
    /\ raw.n = 3
    /\ Rows(dataset) = 2
    /\ Val("action") = <<1, 2>>

\* The padded table after splitting: entry k at step t of episode e.
Episodes == 1..dataset.shape[1]
Steps == 1..dataset.shape[2]
At(k, e, t) == Val(k)[(e - 1) * dataset.shape[2] + t]

\* The last step of episode e that is not padding.
FinalValid(e) == Max({ t \in Steps : At("mask", e, t) })

\* C6. Split boundaries: with split_trajs, in the table handed to the replay
\* buffer the final valid (non-padding) step of every episode has next.done
\* true.
C6_SplitBoundaries ==
    (pc = "done" /\ opts.split_trajs) =>
        \A e \in Episodes : At("next/done", e, FinalValid(e))

\* C7. Done derivation: in the finished table done = terminated | truncated
\* under use_truncated_as_done (truncated counting as false when the source
\* has no timeouts), and done = terminated otherwise; for the top-level
\* fields and for their copies under next.
C7_DoneDerivation ==
    FinishedFlat =>
        \A t \in RowIds :
            /\ Val("done")[t] =
                 IF opts.use_truncated_as_done /\ "truncated" \in keys(dataset)
                 THEN Val("terminated")[t] \/ Val("truncated")[t]
                 ELSE Val("terminated")[t]
            /\ Val("next/done")[t] =
                 IF opts.use_truncated_as_done /\ "next/truncated" \in keys(dataset)
                 THEN Val("next/terminated")[t] \/ Val("next/truncated")[t]
                 ELSE Val("next/terminated")[t]
            /\ ("timeouts" \in DOMAIN raw.col) = ("truncated" \in keys(dataset))
            /\ ("timeouts" \in DOMAIN raw.col) = ("next/truncated" \in keys(dataset))

C7_Witness ==
    /\ FinishedFlat
    /\ opts.use_truncated_as_done
    /\ "next/truncated" \in keys(dataset)
    /\ Val("next/truncated") = <<FALSE, TRUE>>
    /\ Val("next/terminated") = <<FALSE, FALSE>>
    /\ Val("next/done") = <<FALSE, TRUE>>
    /\ Val("truncated") = <<FALSE, FALSE>>

\* The entries of a table that hold numbers.
Numeric ==
    {"observation", "action", "reward", "info", "infos", "next/observation",
     "next/info", "next/reward"}

\* C8. Metadata isolation: once the table is normalised, and in the finished
\* table of either mode, there is no metadata entry and no numeric entry holds
\* a value of the metadata block; self.metadata is the raw block unchanged, or
\* the empty mapping when the raw table has no metadata block.
C8_MetadataIsolation ==
    pc \in {"normalized", "built", "shifted", "zeroed", "split", "done"} =>
        /\ "metadata" \notin keys(dataset)
        /\ \A k \in keys(dataset) \cap Numeric :
              \A i \in 1..dataset.col[k].len : Val(k)[i] >= 0
        /\ metadata.set
        /\ metadata.block = IF "metadata" \in DOMAIN raw.col
                            THEN raw.col["metadata"] ELSE <<>>

C8_Witness ==
    /\ pc = "done"
    /\ "metadata" \in DOMAIN raw.col
    /\ metadata.block = <<0 - 1, 0 - 2, 0 - 3>>
    /\ "metadata" \notin keys(dataset)

\* C9. All-or-nothing: when construction ends with an exception the storage
\* has not been allocated and holds nothing; the storage is allocated and
\* extended only after the whole pipeline has completed, with the table the
\* pipeline produced.
C9_AllOrNothing ==
    /\ pc = "error" => storage = NoStorage
    /\ pc # "done" => storage = NoStorage
    /\ storage.allocated =>
          /\ err = "none"
          /\ metadata.set /\ specs # "unset"
          /\ {"next/observation", "next/done", "reward", "done"} \subseteq keys(dataset)
          /\ storage.max_size = dataset.shape[1]
          /\ storage.len = dataset.shape[1]

\* The load fails late, in the shift, after the table has been built.
C9_Witness ==
    /\ pc = "error"
    /\ err = "IndexError"
    /\ "next/observation" \in keys(dataset)
    /\ storage = NoStorage

\* A source has returned a raw table.
RawLoaded == calls \cap {"from_h5", "env.get_dataset", "qlearning_dataset"} # {}

Mandatory == IF Prebuilt THEN PrebuiltMandatory ELSE FlatMandatory

\* C10. Mandatory fields: when observations, actions, rewards or terminals is
\* missing from the raw table the normalisation ends with a KeyError and no
\* normalised table exists; when the mandatory fields are present no KeyError
\* is raised, whether or not timeouts or infos are there.
C10_MandatoryFields ==
    RawLoaded =>
        /\ ~(FlatMandatory \subseteq DOMAIN raw.col) =>
              /\ pc \in {"raw", "error"}
              /\ pc = "error" => err = "KeyError"
        /\ Mandatory \subseteq DOMAIN raw.col => err # "KeyError"

C10_Witness ==
    /\ pc = "error" /\ err = "KeyError"
    /\ path = "direct_download"
    /\ RawLoaded
    /\ DOMAIN raw.col = {"observations", "rewards", "terminals"}

\* What a source does once asked for data: download, decoding, environment
\* creation, export or computation of the dataset.
SourceWork ==
    {"download", "from_h5", "gym.make", "env.get_dataset", "qlearning_dataset"}

ExtraOptionsRefused ==
    /\ pc # "init"
    /\ opts.env_kwargs # {}
    /\ opts.direct_download \/ opts.from_env

\* C11 as stated: a non-empty env_kwargs with direct_download, or with from_env
\* and no direct_download, always ends the load with the configuration error
\* (RuntimeError) before any lookup, download or environment creation.
C11_ConfigurationErrorFirst ==
    ExtraOptionsRefused =>
        /\ pc = "error"
        /\ err = "RuntimeError"
        /\ calls \cap SourceWork = {}

\* C11, amended. A non-empty env_kwargs with direct_download, or with from_env
\* and no direct_download, ends the load in an error before any lookup,
\* download or environment creation. With direct_download the error is the
\* RuntimeError; without it the d4rl import check runs first, so the error is
\* the RuntimeError of the adapter or the ImportError of the import check.
\* The library-computed path never raises the RuntimeError.
C11_IncompatibleOptions ==
    /\ ExtraOptionsRefused =>
          /\ pc = "error"
          /\ calls \cap SourceWork = {}
          /\ opts.direct_download => err = "RuntimeError"
          /\ ~opts.direct_download =>
                /\ err \in {"RuntimeError", "ImportError"}
                /\ err = "RuntimeError" <=> path = "from_env"
                /\ err = "ImportError" <=> path = "none"
    /\ (~opts.direct_download /\ ~opts.from_env) => err # "RuntimeError"

\* The environment-exported path refuses the extra options.
C11_Witness ==
    /\ pc = "error" /\ err = "RuntimeError"
    /\ ~opts.direct_download /\ opts.from_env
    /\ opts.env_kwargs # {}
    /\ calls = {"import_d4rl"}

\* C12. Unknown dataset: with direct_download, a name that is not a key of
\* D4RL_DATASETS ends the load in an error (the KeyError of the lookup, or the
\* RuntimeError of the env_kwargs check that precedes it); nothing is
\* downloaded and no file is decoded.
C12_UnknownDataset ==
    (pc # "init" /\ opts.direct_download /\ opts.name \notin D4RL_DATASETS) =>
        /\ pc = "error"
        /\ err = IF opts.env_kwargs # {} THEN "RuntimeError" ELSE "KeyError"
        /\ calls \cap {"download", "from_h5"} = {}
        /\ raw = NoRaw

C12_Witness ==
    /\ pc = "error" /\ err = "KeyError"
    /\ opts.direct_download
    /\ opts.name \notin D4RL_DATASETS
    /\ calls = {}

\* The finished table of the worked scenario: derived mode, 4 raw steps with
\* terminated = [F,F,T,F], no timeouts, truncation counted as done.
Scenario ==
    /\ FinishedFlat
    /\ Derived
    /\ opts.use_truncated_as_done
    /\ "timeouts" \notin DOMAIN raw.col
    /\ raw.col["terminals"] = ScenarioTerminated

LastRetained == Len(ScenarioTerminated) - 1

\* C13 as stated: in the scenario the finished table has 3 rows and its last
\* row (index 2) has done = true after the shift and a zeroed next.observation.
C13_ScenarioDoneAfterShift ==
    Scenario =>
        /\ Rows(dataset) = LastRetained
        /\ Val("done")[LastRetained]
        /\ Val("next/observation")[LastRetained] = 0

\* C13, amended. In the scenario the finished table has 3 rows; its last row
\* (index 2) has next.done = true, the unshifted flag, and a zeroed
\* next.observation, the other rows keep their successor observation; the
\* top-level done after the shift is [F,F,F], so that row is not flagged done.
C13_Scenario ==
    Scenario =>
        /\ Rows(dataset) = LastRetained
        /\ Val("next/done") = <<FALSE, FALSE, TRUE>>
        /\ Val("done") = <<FALSE, FALSE, FALSE>>
        /\ Val("next/observation")[LastRetained] = 0
        /\ \A t \in 1..(LastRetained - 1) :
              Val("next/observation")[t] = raw.col["observations"][t + 1]

C13_Witness ==
    /\ Scenario
    /\ "info" \notin keys(dataset)
    /\ Val("next/observation")[LastRetained] = 0
    /\ ~Val("done")[LastRetained]

\* C14 as stated: in the finished derived-mode table every row whose done
\* field is true has a zero next.observation.
C14_ZeroedWhereDone ==
    (FinishedFlat /\ Derived) =>
        \A t \in RowIds : Val("done")[t] => Val("next/observation")[t] = 0

\* C14, amended. In the finished derived-mode table the zeroing is keyed on
\* next.done, the unshifted done of the row: every row whose next.done is true
\* has a zero next.observation, so no terminal row carries the first
\* observation of the following episode. A row whose top-level (shifted) done
\* is true is the row after a terminal row; unless its own next.done is true
\* it keeps the observation of its successor.
C14_ZeroedWhereNextDone ==
    (FinishedFlat /\ Derived) =>
        \A t \in RowIds :
            /\ Val("next/done")[t] => Val("next/observation")[t] = 0
            /\ Val("done")[t] => (t > 1 /\ RawDone(t - 1))
            /\ (Val("done")[t] /\ ~Val("next/done")[t]) =>
                  /\ Val("next/observation")[t] = raw.col["observations"][t + 1]
                  /\ Val("next/observation")[t] # 0

\* A terminal row is zeroed and the row after it, flagged done at top level,
\* still holds the observation of its successor.
C14_Witness ==
    /\ FinishedFlat /\ Derived
    /\ \E t \in RowIds :
          /\ t + 1 \in RowIds
          /\ Val("next/done")[t] /\ Val("next/observation")[t] = 0
          /\ Val("done")[t + 1] /\ ~Val("next/done")[t + 1]
          /\ Val("next/observation")[t + 1] # 0

\* C15. Terminal invalidation survives splitting: with split_trajs, in the
\* table handed to the replay buffer every valid (non-padding) step whose
\* next.done is true has a zero next.observation.
C15_SplitInvalidation ==
    (pc = "done" /\ opts.split_trajs) =>
        \A e \in Episodes : \A t \in Steps :
            (At("mask", e, t) /\ At("next/done", e, t)) =>
                At("next/observation", e, t) = 0

\* C16. The temporal shift has no failure mode: whatever table
\* _shift_reward_done receives, a table without rows included, it completes
\* and the load goes on with the shifted table.
C16_ShiftNeverFails == [][pc = "built" => pc' = "shifted"]_vars

\* C17. Shift isolation: _shift_reward_done changes nothing but the top-level
\* reward, done, terminated and truncated: the table keeps its keys, every
\* other entry (observation, action, info and all of next.*) has the same
\* values after the shift as before, and the rows t >= 1 of the shifted
\* entries hold what row t-1 held before the shift began.
C17_ShiftIsolation ==
    [][ (pc = "built" /\ pc' = "shifted") =>
            /\ keys(dataset') = keys(dataset)
            /\ Rows(dataset') = Rows(dataset)
            /\ \A k \in keys(dataset) \ Signals : Val(k)' = Val(k)
            /\ \A k \in Signals \cap keys(dataset) :
                  \A t \in RowIds \ {1} : Val(k)'[t] = Val(k)[t - 1] ]_vars

\* A shifted table whose other entries, info and next.* among them, are the
\* unshifted ones.
C17_Witness ==
    /\ pc = "shifted"
    /\ Derived
    /\ Rows(dataset) = 2
    /\ {"info", "next/info"} \subseteq keys(dataset)
    /\ Val("done") = <<FALSE, TRUE>>
    /\ Val("next/done") = <<TRUE, FALSE>>
    /\ Val("next/reward") = <<1, 2>>
    /\ Val("observation") = <<1, 2>>
    /\ Val("next/observation") = <<2, 3>>
    /\ Val("next/info") = <<2, 3>>

\* C18. One-step lag: in the finished table (no splitting, either mode) the
\* top-level reward, done, terminated and truncated of row t+1 equal the
\* next.* value of row t, for every t with t+1 inside the table; row 0 of the
\* top-level fields holds the identity value.  The next.* value of row t is
\* the raw value of row t, the top-level value of row t+1 is that same raw
\* value of row t.
C18_OneStepLag ==
    FinishedFlat =>
        /\ \A k \in Signals \cap keys(dataset) :
              /\ Val(k)[1] = Zero(k)
              /\ \A t \in RowIds :
                    (t + 1) \in RowIds => Val(k)[t + 1] = Val(Nested(k))[t]
        /\ \A t \in RowIds :
              (t + 1) \in RowIds =>
                  /\ Val("reward")[t + 1] = raw.col["rewards"][t]
                  /\ Val("done")[t + 1] = RawDone(t)
                  /\ Val("terminated")[t + 1] = raw.col["terminals"][t]

C18_Witness ==
    /\ FinishedFlat
    /\ Prebuilt
    /\ Rows(dataset) = 3
    /\ "truncated" \in keys(dataset)
    /\ Val("next/reward") = <<1, 2, 3>>
    /\ Val("reward") = <<0, 1, 2>>
    /\ Val("next/done") = <<TRUE, FALSE, TRUE>>
    /\ Val("done") = <<FALSE, TRUE, FALSE>>
    /\ Val("next/truncated") = <<TRUE, FALSE, FALSE>>
    /\ Val("truncated") = <<FALSE, TRUE, FALSE>>

\* C19. After splitting, next.done is true at the last time index of every
\* episode row of the padded table, padding positions included: where the
\* episode is shorter than the longest one that position is padding (mask
\* false) and still carries next.done = true.
C19_LastIndexForced ==
    (pc \in {"split", "done"} /\ opts.split_trajs) =>
        \A e \in Episodes : At("next/done", e, dataset.shape[2])

\* A short episode: its last time index is padding, flagged next.done, while
\* the last index of a longer episode is a valid step flagged the same way.
C19_Witness ==
    /\ pc = "done" /\ opts.split_trajs
    /\ \E e \in Episodes :
          /\ ~At("mask", e, dataset.shape[2])
          /\ At("next/done", e, dataset.shape[2])
          /\ At("observation", e, dataset.shape[2]) = 0
    /\ \E e \in Episodes :
          /\ At("mask", e, dataset.shape[2])
          /\ At("next/done", e, dataset.shape[2])

\* The source method __init__ selects for the options of the load.
Selected ==
    IF opts.direct_download THEN "direct_download"
    ELSE IF opts.from_env THEN "from_env"
    ELSE "direct"

====
